---- MODULE Spec2Model ----
(***************************************************************************)
(* Run-scoped logging and retention subsystem of Text-Summarise.           *)
(*                                                                         *)
(* Two copies of the subsystem exist and both are modelled:                *)
(*   variant = "global"  src/DynamicPrompt/logger.py                       *)
(*                       (setup_logger + _purge_old_logs_global)           *)
(*   variant = "scoped"  src/StaticPrompt/logger.py                        *)
(*                       (setup_logger + _purge_old_timestamped_logs)      *)
(*                                                                         *)
(* A file name is a sequence of string tokens, e.g.                        *)
(*   <<"svc", "_", "2", ".log">>  for  svc_<stamp of second 2>.log         *)
(* The token ToString(s) stands for the text strftime("%Y-%m-%d_%H-%M-%S") *)
(* produces for clock second s.  Time is counted in whole seconds; 0 is    *)
(* the epoch.                                                              *)
(***************************************************************************)
EXTENDS Integers, Sequences, FiniteSets, TLC

\* ------------------------------------------------------------- bounds
MaxSec == 2
MaxKeep == 1
MaxPre == 3
MaxOld == 1
MaxCalls == 2
MaxFail == 1
MaxDepth == 2
MaxRace == 2
MaxTick == 3
MaxQuery == 2
MaxRuns == 2

\* ---------------------------------------------------- program constants
DEBUG == 10
INFO == 20
WARNING == 30

Procs == {"p1", "p2"}
Variants == {"global", "scoped"}

\* module names passed to setup_logger
Svc == <<"svc">>
SvcExtra == <<"svc", "_", "extra">>
Other == <<"other">>
Modules == {Svc, SvcExtra}

Levels == {DEBUG, INFO, WARNING}
Severities == {DEBUG, INFO, WARNING}
Keeps == 0..MaxKeep
Secs == 1..MaxSec

\* Python's None, and a value v that is not None
None == <<>>
Some(v) == <<v>>
NoPath == <<>>

\* ------------------------------------------------------------ file names
\* a digit group of the right shape that is no calendar date (month 13)
BadStamp == "2024-13-01_00-00-00"

\* strftime("%Y-%m-%d_%H-%M-%S") of clock second s
Strftime(s) == ToString(s)

\* os.path.join(log_dir, f"{module_name}_{timestamp}.log")
LogFilename(m, s) == m \o <<"_", Strftime(s), ".log">>

\* the digit groups _TIMESTAMP_RE accepts: \d{4}-\d{2}-\d{2}_\d{2}-\d{2}-\d{2}
StampShaped(tok) == tok = BadStamp \/ \E s \in 0..MaxSec : tok = ToString(s)

\* datetime.strptime(ts, "%Y-%m-%d_%H-%M-%S"); None when it raises
Strptime(tok) ==
    IF \E s \in 0..MaxSec : tok = ToString(s)
    THEN Some(CHOOSE s \in 0..MaxSec : tok = ToString(s))
    ELSE None

\* _parse_timestamp_from_filename: the name must END in _<stamp>.log
ParseTimestampFromFilename(name) ==
    LET n == Len(name) IN
    IF n >= 3 /\ name[n] = ".log" /\ name[n-2] = "_" /\ StampShaped(name[n-1])
    THEN Strptime(name[n-1])
    ELSE None

IsPrefix(a, b) == Len(a) <= Len(b) /\ SubSeq(b, 1, Len(a)) = a

\* tokens that begin with a dot: glob's * never matches a leading dot
DotTokens == {".log", ".txt", ".rot"}
IsHidden(name) == Len(name) > 0 /\ name[1] \in DotTokens

\* fnmatch of a name against "*.log"
MatchAllLogs(name) ==
    /\ Len(name) >= 1
    /\ name[Len(name)] = ".log"
    /\ ~IsHidden(name)

\* (mutant) the scoped pattern without its module prefix
MatchAnyModuleLogs(m, name) == MatchAllLogs(name)

\* fnmatch of a name against f"{module_name}_*.log"
MatchModuleLogs(m, name) ==
    /\ Len(name) >= Len(m) + 2
    /\ IsPrefix(m \o <<"_">>, name)
    /\ name[Len(name)] = ".log"

\* glob.glob(pattern): the names of the directory the pass's pattern matches
Selected(v, m, name) ==
    IF v = "global" THEN MatchAllLogs(name) ELSE MatchModuleLogs(m, name)

Glob(v, m, d) == {name \in DOMAIN d : Selected(v, m, name)}

\* the orders in which a directory listing may return a set of names
Orders(S) ==
    {f \in [1..Cardinality(S) -> S] : \A i, j \in 1..Cardinality(S) : f[i] = f[j] => i = j}

\* --------------------------------------------------------------- sorting
\* (mutant) an unstable sort: a later file goes before its equals
InsertBeforeEqual(sorted, x) ==
    LET k == Cardinality({i \in 1..Len(sorted) : sorted[i].key < x.key})
    IN  SubSeq(sorted, 1, k) \o <<x>> \o SubSeq(sorted, k + 1, Len(sorted))

\* list.sort(key=...) is stable: equal keys keep their listing order
InsertByKey(sorted, x) ==
    LET k == Cardinality({i \in 1..Len(sorted) : sorted[i].key <= x.key})
    IN  SubSeq(sorted, 1, k) \o <<x>> \o SubSeq(sorted, k + 1, Len(sorted))

RECURSIVE SortedByKey(_)
SortedByKey(s) ==
    IF s = <<>> THEN <<>>
    ELSE InsertByKey(SortedByKey(SubSeq(s, 1, Len(s) - 1)), s[Len(s)])

\* Python's seq[:stop] for any integer stop
SliceTo(s, stop) ==
    LET e == IF stop < 0 THEN (IF Len(s) + stop < 0 THEN 0 ELSE Len(s) + stop)
             ELSE (IF stop > Len(s) THEN Len(s) ELSE stop)
    IN  SubSeq(s, 1, e)

Paths(infos) == [i \in 1..Len(infos) |-> infos[i].path]
Range(s) == {s[i] : i \in 1..Len(s)}

\* ------------------------------------------------------ metabot.py, pure
\* the characters a query is made of; the first two are whitespace
QChars == {" ", "\n", "q"}
IsSpace(c) == c \in {" ", "\n"}

\* the values run() is called with: None, an int, and the strings of up to
\* MaxQuery characters
Texts == UNION {[1..n -> QChars] : n \in 0..MaxQuery}
Queries ==
    {[type |-> "NoneType", text |-> <<>>], [type |-> "int", text |-> <<>>]}
        \cup {[type |-> "str", text |-> s] : s \in Texts}
NoQuery == [type |-> "unset", text |-> <<>>]

\* str.lstrip(), str.rstrip(), str.strip()
RECURSIVE LStrip(_)
LStrip(s) == IF s # <<>> /\ IsSpace(Head(s)) THEN LStrip(Tail(s)) ELSE s

RECURSIVE RStrip(_)
RStrip(s) ==
    IF s # <<>> /\ IsSpace(s[Len(s)]) THEN RStrip(SubSeq(s, 1, Len(s) - 1)) ELSE s

Strip(s) == RStrip(LStrip(s))

\* "not isinstance(query, str) or not query.strip()"
QueryRejected(q) == q.type # "str" \/ Strip(q.text) = <<>>

\* how self._call_langchain(query) ends: with the reply, with an Exception
\* (raised by invoke or by the handling of its response, logged and raised
\* again), or with a BaseException that is no Exception (KeyboardInterrupt)
LcOutcomes == {"reply", "exception", "baseexception"}

\* (mutant) "return" missing in front of self._call_langchain(query)
AfterLangchainNoReturn(o) == IF o = "baseexception" THEN "raised" ELSE "rest"

\* where run() goes after the LangChain call: "return" on a reply,
\* "except Exception" falls through to the REST call, anything else leaves run
AfterLangchain(o) ==
    CASE o = "reply" -> "returned"
      [] o = "exception" -> "rest"
      [] OTHER -> "raised"

\* how requests.post and the handling of its response end
RestOutcomes ==
    {"network", "200list", "200dict", "200error", "200other", "200badjson",
     "401", "403", "429", "500"}

\* _call_rest_conversational returns the text of a 200 response that carries
\* no error, and raises in every other case
RestResult(o) ==
    IF o \in {"200list", "200dict", "200other"} THEN "returned" ELSE "raised"

\* ----------------------------------------------------------------- state
VARIABLES
    variant,   \* which copy of logger.py the processes run
    tree,      \* how many of the MaxDepth components of log_dir's path exist
    now,       \* the wall clock, in seconds
    ncalls,    \* setup_logger calls started so far (bounds the run)
    dir,       \* the log directory: file name -> [mtime]
    pc,        \* per process: where it stands in setup_logger
    frame,     \* per process: the locals of the running setup_logger call
    pass,      \* per process: the locals of the running retention pass
    loggers,   \* per process: logging's registry, module name -> logger
    hist,      \* per process: what the running call has done so far
    sess,      \* per process and module name: what its calls have done
    bot        \* metabot.py: the module's flag, the MetaBot object, its run

vars ==
    <<variant, tree, now, ncalls, dir, pc, frame, pass, loggers, hist, sess, bot>>

NoFrame == [caller |-> "none", mod |-> <<>>, keep |-> 0, level |-> 0,
            path |-> NoPath, first |-> FALSE, touched |-> FALSE, made |-> 0]
NoPass == [files |-> {}, infos |-> <<>>, todo |-> <<>>, deleted |-> <<>>]
NoHist ==
    [outcome |-> "none", passes |-> 0, sinksAtPass |-> 0, passKeep |-> 0,
     count |-> 0, inverted |-> FALSE, cands |-> <<>>, attempts |-> <<>>,
     failed |-> {}, removed |-> <<>>, interfered |-> FALSE, cause |-> "none"]
NoLogger == [level |-> 0, handlers |-> <<>>]
\* calls counts the calls made for the name: 0, 1, or 2 for two and more
NoSess == [calls |-> 0, opened |-> {}, created |-> {}, firstPath |-> NoPath,
           lastPath |-> NoPath, wrote |-> NoPath, firstLevel |-> 0]

\* metabot.py not imported yet: no flag, no MetaBot object, no run
NoBot ==
    [pc |-> "unloaded", hasLangchain |-> FALSE, chatModel |-> FALSE,
     runs |-> 0, query |-> NoQuery, calls |-> <<>>, lc |-> "none",
     rest |-> "none", outcome |-> "none", error |-> "none"]

\* files left in the directory by earlier runs and by other programs
PreNames ==
    {LogFilename(Svc, 1), LogFilename(Svc, 2),
     LogFilename(Other, 1),
     LogFilename(SvcExtra, 1),
     <<"svc", "_", "notes", ".log">>,
     <<"svc", "_", BadStamp, ".log">>,
     <<"svc", "_", "1", ".log", ".rot">>}

InPass(p) == pc[p] \in {"list", "sort", "delete", "end"}

\* the directories that hold at most n files when the process starts
Directories(n) ==
    UNION {[S -> [mtime : Secs]] :
              S \in {T \in SUBSET PreNames : Cardinality(T) <= n}}

\* the directory that holds nothing
NoFiles == [name \in {} |-> [mtime |-> 0]]

\* the state of a fresh process whose log directory is one of dirs, or is
\* missing together with some of its parents
Start(dirs) ==
    /\ variant \in Variants
    /\ tree \in 0..MaxDepth
    /\ now = 1
    /\ ncalls = 0
    /\ dir \in IF tree = MaxDepth THEN dirs ELSE {NoFiles}
    /\ pc = [p \in Procs |-> "idle"]
    /\ frame = [p \in Procs |-> NoFrame]
    /\ pass = [p \in Procs |-> NoPass]
    /\ loggers = [p \in Procs |-> [m \in Modules |-> NoLogger]]
    /\ hist = [p \in Procs |-> NoHist]
    /\ sess = [p \in Procs |-> [m \in Modules |-> NoSess]]
    /\ bot = NoBot

Init == Start(Directories(MaxOld))
InitPass == Start(Directories(MaxPre))
InitRace == Start(Directories(MaxRace))

\* ------------------------------------------------------- file operations
\* open(path, "a"): creates the file when it is missing, else leaves it as it is
OpenAppend(d, path, t) ==
    IF path \in DOMAIN d THEN d
    ELSE [n \in DOMAIN d \cup {path} |-> IF n = path THEN [mtime |-> t] ELSE d[n]]

\* os.remove(path) when it succeeds
Unlink(d, path) == [n \in DOMAIN d \ {path} |-> d[n]]

\* a write to an open stream: it reaches the file the stream was opened on
\* as long as that file is linked (live); a file made later under the same
\* name is another file
WriteTo(d, path, live, t) ==
    IF live /\ path \in DOMAIN d THEN [d EXCEPT ![path].mtime = t] ELSE d

\* what the other processes see of a change of the directory by process p
Observe(p, h, d2) ==
    [q \in Procs |->
        IF q = p THEN h
        ELSE IF d2 # dir /\ InPass(q) THEN [hist[q] EXCEPT !.interfered = TRUE]
        ELSE hist[q]]

\* ---------------------------------------------------------------- sinks
FileHandler(path, level) ==
    [kind |-> "file", level |-> level, path |-> path, live |-> TRUE]
ConsoleHandler ==
    [kind |-> "console", level |-> INFO, path |-> NoPath, live |-> TRUE]

\* the registries after the file at path was unlinked: the streams open on it
\* write to a file that has no name any more
Orphaned(lgs, path) ==
    [p \in Procs |-> [m \in Modules |->
        [lgs[p][m] EXCEPT !.handlers =
            [i \in 1..Len(@) |->
                IF @[i].kind = "file" /\ @[i].path = path
                THEN [@[i] EXCEPT !.live = FALSE] ELSE @[i]]]]]

\* (mutant) no level check at the logger: only the handlers filter
ReachedByHandlerLevel(lg, sev) ==
    {i \in 1..Len(lg.handlers) : sev >= lg.handlers[i].level}

\* Logger.log(sev, ...): the handlers of logger lg a record of severity sev reaches
Reached(lg, sev) ==
    IF sev >= lg.level
    THEN {i \in 1..Len(lg.handlers) : sev >= lg.handlers[i].level}
    ELSE {}

\* the directory after logger lg has handled one record of severity sev at time t
Emit(d, lg, sev, t) ==
    IF \E i \in Reached(lg, sev) : lg.handlers[i].kind = "file"
    THEN LET i == CHOOSE j \in Reached(lg, sev) : lg.handlers[j].kind = "file"
         IN  WriteTo(d, lg.handlers[i].path, lg.handlers[i].live, t)
    ELSE d

\* ---------------------------------------------------- setup_logger, entry
\* (mutant) os.mkdir in place of os.makedirs: the parents are not created
MkdirLeafOnly(tr, ok) == IF ok /\ tr >= MaxDepth - 1 THEN MaxDepth ELSE tr

\* os.makedirs(log_dir, exist_ok=True): every missing component is created,
\* an existing directory is no error; when it raises (ok = FALSE) nothing is made
Makedirs(tr, ok) == IF ok THEN MaxDepth ELSE tr

\* The advisory pre-touch of the log file; only the global copy has it.  Its
\* open may raise (touched = FALSE): "except Exception: pass".
PreTouch(d, path, t, touched) ==
    IF variant = "global" /\ touched THEN OpenAppend(d, path, t) ELSE d

\* "if logger.handlers:" -- the call is a repeated one for this name
HasHandlers(lg) == lg.handlers # <<>>

\* (mutant) no "if logger.handlers" check: every call adds a pair of sinks
AttachHandlersAgain(lg, path, level) ==
    lg.handlers \o <<FileHandler(path, level), ConsoleHandler>>

\* (mutant) every call replaces the pair of sinks by one on the new path
AttachHandlersRebind(lg, path, level) ==
    <<FileHandler(path, level), ConsoleHandler>>

\* The handlers of the logger after the entry part of setup_logger.
AttachHandlers(lg, path, level) ==
    IF HasHandlers(lg) THEN lg.handlers
    ELSE <<FileHandler(path, level), ConsoleHandler>>

\* (mutant) the repeated-call branch returns without a retention pass
AfterEntrySkipRepeat(first) == IF first THEN "list" ELSE "end"

\* where setup_logger goes after the entry part: both branches call the pass
AfterEntry(first) == "list"

\* setup_logger(m, keep=keep, level=level) called at clock second t: from the
\* entry to the call of the retention pass (on either branch).  touched tells
\* whether the pre-touch could open the file.
SetupBegin(p, m, keep, level, t, touched) ==
    /\ pc[p] = "idle"
    /\ ncalls < MaxCalls
    /\ t >= now
    /\ LET path == LogFilename(m, t)
           d1 == PreTouch(dir, path, t, touched)
           lg == loggers[p][m]
           first == ~HasHandlers(lg)
           d2 == IF first THEN OpenAppend(d1, path, t) ELSE d1
           hs == AttachHandlers(lg, path, level)
           opens == (variant = "global" /\ touched) \/ first
       IN  /\ dir' = d2
           /\ loggers' = [loggers EXCEPT ![p][m] = [level |-> level, handlers |-> hs]]
           /\ frame' = [frame EXCEPT ![p] =
                  [caller |-> "setup", mod |-> m, keep |-> keep, level |-> level,
                   path |-> path, first |-> first, touched |-> touched,
                   made |-> Makedirs(tree, TRUE) - tree]]
           /\ sess' = [sess EXCEPT ![p][m] =
                  [@ EXCEPT !.calls = IF @ < 2 THEN @ + 1 ELSE @,
                            !.opened = IF opens THEN @ \cup {path} ELSE @,
                            !.created = IF d2 # dir THEN @ \cup {path} ELSE @,
                            !.firstPath = IF first THEN path ELSE @,
                            !.lastPath = path,
                            !.firstLevel = IF first THEN level ELSE @,
                            !.wrote = NoPath]]
           /\ hist' = Observe(p, NoHist, d2)
           /\ pc' = [pc EXCEPT ![p] = AfterEntry(first)]
    /\ now' = t
    /\ ncalls' = ncalls + 1
    /\ pass' = [pass EXCEPT ![p] = NoPass]
    /\ tree' = Makedirs(tree, TRUE)
    /\ UNCHANGED <<variant, bot>>

\* (mutant) a failed file sink is replaced by a console-only logger
HandlersConsoleFallback(lg) == <<ConsoleHandler>>

\* the handlers of the logger when TimedRotatingFileHandler(...) raises: the
\* exception leaves setup_logger before any addHandler
HandlersOnOpenFailure(lg) == lg.handlers

\* (mutant) the pre-touch without its try/except
RaisesOnPreTouch(cause, touched) ==
    cause \in {"makedirs", "open"} \/ (cause = "pretouch" /\ ~touched)

\* the failures that leave setup_logger as an exception: os.makedirs and the
\* constructor of the file sink are not guarded, the pre-touch is
\* ("except Exception: pass")
Raises(cause, touched) == cause \in {"makedirs", "open"}

\* setup_logger(m, ...) called at clock second t raises: os.makedirs fails
\* (cause "makedirs"), or the file sink cannot open the log file of a first
\* call (cause "open").  Nothing after the failing statement runs.
SetupRaise(p, m, keep, level, t, touched, cause) ==
    /\ pc[p] = "idle"
    /\ ncalls < MaxCalls
    /\ t >= now
    /\ Raises(cause, touched)
    /\ cause = "open" => ~HasHandlers(loggers[p][m])
    /\ LET path == LogFilename(m, t)
           d2 == IF cause = "open" THEN PreTouch(dir, path, t, touched) ELSE dir
       IN  /\ dir' = d2
           /\ tree' = Makedirs(tree, cause # "makedirs")
           /\ loggers' =
                  IF cause = "open"
                  THEN [loggers EXCEPT ![p][m] =
                          [level |-> level,
                           handlers |-> HandlersOnOpenFailure(loggers[p][m])]]
                  ELSE loggers
           /\ hist' = Observe(p, [NoHist EXCEPT !.outcome = "raised", !.cause = cause], d2)
    /\ now' = t
    /\ ncalls' = ncalls + 1
    /\ UNCHANGED <<variant, bot, pc, frame, pass, sess>>

\* ------------------------------------------------------- retention pass
\* _purge_old_logs_global(log_dir, keep) or
\* _purge_old_timestamped_logs(m, log_dir, keep), called on its own
PurgeCall(p, m, keep) ==
    /\ pc[p] = "idle"
    /\ frame' = [frame EXCEPT ![p] =
           [NoFrame EXCEPT !.caller = "direct", !.keep = keep,
                           !.mod = IF variant = "scoped" THEN m ELSE <<>>]]
    /\ pass' = [pass EXCEPT ![p] = NoPass]
    /\ hist' = [hist EXCEPT ![p] = NoHist]
    /\ pc' = [pc EXCEPT ![p] = "list"]
    /\ UNCHANGED <<variant, bot, tree, now, ncalls, dir, loggers, sess>>

\* the caller of a pass called on its own takes the returned list
PurgeDone(p) ==
    /\ pc[p] = "end"
    /\ frame[p].caller = "direct"
    /\ hist' = [hist EXCEPT ![p] =
           [NoHist EXCEPT !.outcome = "returned", !.passes = hist[p].passes]]
    /\ pc' = [pc EXCEPT ![p] = "idle"]
    /\ frame' = [frame EXCEPT ![p] = NoFrame]
    /\ pass' = [pass EXCEPT ![p] = NoPass]
    /\ UNCHANGED <<variant, bot, tree, now, ncalls, dir, loggers, sess>>

\* files = glob.glob(pattern); "if not files: return []".  The listing is
\* held as the set of names it returned; the order in which it returned them
\* is drawn where the code first reads it, in the sort.
PurgeList(p) ==
    /\ pc[p] = "list"
    /\ LET S == Glob(variant, frame[p].mod, dir) IN
          /\ pass' = [pass EXCEPT ![p] = [NoPass EXCEPT !.files = S]]
          /\ hist' = [hist EXCEPT ![p] =
                 [@ EXCEPT !.passes = @ + 1,
                           !.sinksAtPass =
                               IF frame[p].caller = "setup"
                               THEN Len(loggers[p][frame[p].mod].handlers) ELSE 0,
                           !.passKeep = frame[p].keep,
                           !.count = Cardinality(S)]]
          /\ pc' = [pc EXCEPT ![p] = IF S = {} THEN "end" ELSE "sort"]
    /\ UNCHANGED <<variant, bot, tree, now, ncalls, dir, frame, loggers, sess>>

\* os.path.getmtime(path) raises when the file is gone
MtimeReadable(d, path) == path \in DOMAIN d

\* (mutant) the global copy sorting by modification time alone
SortKeyGlobalByMtime(d, path) ==
    IF MtimeReadable(d, path) THEN d[path].mtime ELSE 0

\* the sort key of a listed file in _purge_old_logs_global
SortKeyGlobal(d, path) ==
    LET parsed == ParseTimestampFromFilename(path) IN
    IF parsed # None THEN parsed[1]
    ELSE IF MtimeReadable(d, path) THEN d[path].mtime
    ELSE 0

\* the sort key of a listed file in _purge_old_timestamped_logs
SortKeyScoped(d, path) == d[path].mtime

SortKey(d, path) ==
    IF variant = "global" THEN SortKeyGlobal(d, path) ELSE SortKeyScoped(d, path)

\* the sort raises: only the scoped copy reads mtimes outside a try
SortRaises(d, files) ==
    variant = "scoped" /\ \E f \in files : ~MtimeReadable(d, f)

\* (mutant) one candidate too many
NumToDeleteOffByOne(total, keep) == IF total > keep THEN total - keep + 1 ELSE 0

\* how many of the sorted files are deletion candidates
NumToDelete(total, keep) == IF total > keep THEN total - keep ELSE 0

\* the deletion candidates, oldest first
ToDelete(infos, keep) ==
    IF Len(infos) > keep
    THEN IF variant = "global"
         THEN SliceTo(Paths(infos), NumToDelete(Len(infos), keep))
         ELSE SliceTo(Paths(infos), 0 - keep)
    ELSE <<>>

\* the listing fs with the sort key of each file, sorted oldest first
SortedInfos(d, fs) ==
    SortedByKey([i \in 1..Len(fs) |-> [path |-> fs[i], key |-> SortKey(d, fs[i])]])

\* some candidate was modified later than some listed file that is kept
Inverted(d, infos, cands) ==
    \E f \in Range(cands), g \in Range(Paths(infos)) \ Range(cands) :
        /\ MtimeReadable(d, f) /\ MtimeReadable(d, g)
        /\ d[f].mtime > d[g].mtime

\* the sort keys are read, the list is sorted, the candidates are chosen
PurgeSort(p) ==
    /\ pc[p] = "sort"
    /\ ~SortRaises(dir, pass[p].files)
    /\ \E fs \in Orders(pass[p].files) :
          LET infos == SortedInfos(dir, fs)
              cands == ToDelete(infos, frame[p].keep)
          IN  /\ pass' = [pass EXCEPT ![p] =
                     [@ EXCEPT !.files = {}, !.infos = infos, !.todo = cands,
                               !.deleted = <<>>]]
              /\ hist' = [hist EXCEPT ![p] =
                     [@ EXCEPT !.cands = cands,
                               !.inverted = Inverted(dir, infos, cands)]]
    /\ pc' = [pc EXCEPT ![p] = "delete"]
    /\ UNCHANGED <<variant, bot, tree, now, ncalls, dir, frame, loggers, sess>>

\* getmtime raises inside files.sort: the exception leaves setup_logger
PurgeSortRaise(p) ==
    /\ pc[p] = "sort"
    /\ SortRaises(dir, pass[p].files)
    /\ hist' = [hist EXCEPT ![p] = [@ EXCEPT !.outcome = "raised"]]
    /\ pc' = [pc EXCEPT ![p] = "idle"]
    /\ frame' = [frame EXCEPT ![p] = NoFrame]
    /\ pass' = [pass EXCEPT ![p] = NoPass]
    /\ UNCHANGED <<variant, bot, tree, now, ncalls, dir, loggers, sess>>

\* (mutant) the path is recorded before os.remove is tried
DeletedAfterAlways(deleted, f, ok) == Append(deleted, f)

\* "deleted.append(f)" runs only when os.remove(f) did not raise
DeletedAfter(deleted, f, ok) == IF ok THEN Append(deleted, f) ELSE deleted

\* (mutant) a failed deletion ends the loop
TodoAfterAbort(todo, ok) == IF ok THEN Tail(todo) ELSE <<>>

\* "except Exception: pass": the loop goes on to the next candidate
TodoAfter(todo, ok) == Tail(todo)

\* one turn of "for f in to_delete": os.remove succeeds (ok) or raises
PurgeDelete(p) ==
    /\ pc[p] = "delete"
    /\ pass[p].todo # <<>>
    /\ LET f == Head(pass[p].todo) IN
       \E ok \in BOOLEAN :
          /\ ok => f \in DOMAIN dir
          /\ ~ok => f \notin DOMAIN dir \/ Cardinality(hist[p].failed) < MaxFail
          /\ LET d2 == IF ok THEN Unlink(dir, f) ELSE dir
                 h == [hist[p] EXCEPT
                         !.attempts = Append(@, f),
                         !.failed = IF ok THEN @ ELSE @ \cup {f},
                         !.removed = IF ok THEN Append(@, f) ELSE @]
             IN  /\ dir' = d2
                 /\ loggers' = IF ok THEN Orphaned(loggers, f) ELSE loggers
                 /\ hist' = Observe(p, h, d2)
          /\ pass' = [pass EXCEPT ![p] =
                 [@ EXCEPT !.todo = TodoAfter(@, ok),
                           !.deleted = DeletedAfter(@, f, ok)]]
    /\ UNCHANGED <<variant, bot, tree, now, ncalls, pc, frame, sess>>

\* "return deleted" at the end of the pass
PurgeReturn(p) ==
    /\ pc[p] = "delete"
    /\ pass[p].todo = <<>>
    /\ pc' = [pc EXCEPT ![p] = "end"]
    /\ UNCHANGED <<variant, bot, tree, now, ncalls, dir, frame, pass, loggers, hist, sess>>

\* ----------------------------------------------------- setup_logger, exit
\* "if deleted: logger.debug(...)", on the first call also
\* logger.debug("Logger initialized ..."), then "return logger"
SetupEnd(p) ==
    /\ pc[p] = "end"
    /\ frame[p].caller = "setup"
    /\ LET lg == loggers[p][frame[p].mod]
           d1 == IF pass[p].deleted # <<>> THEN Emit(dir, lg, DEBUG, now) ELSE dir
           d2 == IF frame[p].first THEN Emit(d1, lg, DEBUG, now) ELSE d1
           h == [NoHist EXCEPT !.outcome = "returned",
                               !.passes = hist[p].passes,
                               !.sinksAtPass = hist[p].sinksAtPass]
       IN  /\ dir' = d2
           /\ hist' = Observe(p, h, d2)
    /\ pc' = [pc EXCEPT ![p] = "idle"]
    /\ frame' = [frame EXCEPT ![p] = NoFrame]
    /\ pass' = [pass EXCEPT ![p] = NoPass]
    /\ UNCHANGED <<variant, bot, tree, now, ncalls, loggers, sess>>

\* ------------------------------------------------- use of the handle
\* the path of the file sink a record of severity sev reaches, if any
FileSinkPath(lg, sev) ==
    IF \E i \in Reached(lg, sev) : lg.handlers[i].kind = "file"
    THEN lg.handlers[CHOOSE i \in Reached(lg, sev) : lg.handlers[i].kind = "file"].path
    ELSE NoPath

\* logger.log(sev, ...) through the handle of module m
Log(p, m, sev) ==
    /\ pc[p] = "idle"
    /\ HasHandlers(loggers[p][m])
    /\ LET d2 == Emit(dir, loggers[p][m], sev, now) IN
          /\ dir' = d2
          /\ hist' = Observe(p, hist[p], d2)
    /\ sess' = [sess EXCEPT ![p][m].wrote =
           IF FileSinkPath(loggers[p][m], sev) # NoPath
           THEN FileSinkPath(loggers[p][m], sev) ELSE @]
    /\ UNCHANGED <<variant, bot, tree, now, ncalls, pc, frame, pass, loggers>>

\* ------------------------------------------------------- specifications
\* one process, as the subsystem is designed to be used
Main == "p1"

Next ==
    \/ \E m \in Modules, k \in Keeps, l \in Levels, t \in Secs :
          SetupBegin(Main, m, k, l, t, TRUE)
    \/ PurgeList(Main)
    \/ PurgeSort(Main)
    \/ PurgeDelete(Main)
    \/ PurgeReturn(Main)
    \/ SetupEnd(Main)
    \/ \E m \in Modules, v \in Severities : Log(Main, m, v)

Spec == Init /\ [][Next]_vars

\* the retention pass on its own, on every directory of up to MaxPre files
NextPass ==
    \/ \E m \in Modules, k \in Keeps : PurgeCall(Main, m, k)
    \/ PurgeList(Main)
    \/ PurgeSort(Main)
    \/ PurgeDelete(Main)
    \/ PurgeReturn(Main)
    \/ PurgeDone(Main)

SpecPass == InitPass /\ [][NextPass]_vars

\* one process whose setup_logger calls meet failing system calls: the
\* pre-touch, os.makedirs and the opening of the file sink may raise
NextFail ==
    \/ \E m \in Modules, k \in Keeps, l \in Levels, t \in Secs, touched \in BOOLEAN :
          SetupBegin(Main, m, k, l, t, touched)
    \/ \E m \in Modules, k \in Keeps, l \in Levels, t \in Secs, touched \in BOOLEAN,
          cause \in {"pretouch", "makedirs", "open"} :
          SetupRaise(Main, m, k, l, t, touched, cause)
    \/ PurgeList(Main)
    \/ PurgeSort(Main)
    \/ PurgeDelete(Main)
    \/ PurgeReturn(Main)
    \/ SetupEnd(Main)

SpecFail == Init /\ [][NextFail]_vars

\* while a pass runs, a live session of some other program appends a record
\* to its log file at clock second t: the file's modification time moves
LiveAppend(f, t) ==
    /\ \E q \in Procs : InPass(q)
    /\ f \in DOMAIN dir
    /\ t >= now
    /\ dir[f].mtime < t
    /\ dir' = [dir EXCEPT ![f].mtime = t]
    /\ now' = t
    /\ hist' = [q \in Procs |->
           IF InPass(q) THEN [hist[q] EXCEPT !.interfered = TRUE] ELSE hist[q]]
    /\ UNCHANGED <<variant, bot, tree, ncalls, pc, frame, pass, loggers, sess>>

\* process p starts its one retention pass
RaceCall(p, m, keep) ==
    /\ hist[p].outcome = "none"
    /\ PurgeCall(p, m, keep)

\* two processes, each running one retention pass on the same directory, while
\* live sessions append to their log files; no lock orders their steps
NextRace ==
    \/ \E p \in Procs, m \in Modules, k \in Keeps : RaceCall(p, m, k)
    \/ \E p \in Procs : PurgeList(p)
    \/ \E p \in Procs : PurgeSort(p)
    \/ \E p \in Procs : PurgeSortRaise(p)
    \/ \E p \in Procs : PurgeDelete(p)
    \/ \E p \in Procs : PurgeReturn(p)
    \/ \E f \in PreNames, t \in 1..MaxTick : LiveAppend(f, t)

SpecRace == InitRace /\ [][NextRace]_vars

\* ------------------------------------------------------------ metabot.py
\* The records these steps log go through the handle of setup_logger above;
\* they decide nothing in metabot.py and are left out of its steps.
LoggerVars == <<variant, tree, now, ncalls, dir, pc, frame, pass, loggers, hist, sess>>

\* import metabot: the try/except around the LangChain imports sets the flag
Import(has) ==
    /\ bot.pc = "unloaded"
    /\ bot' = [bot EXCEPT !.pc = "loaded", !.hasLangchain = has]
    /\ UNCHANGED LoggerVars

\* "_HAS_LANGCHAIN and self.chat_model"
Available(b) == b.hasLangchain /\ b.chatModel

\* MetaBot(): without a token it raises ValueError and there is no object;
\* with one, chat_model is set when LangChain was imported and its two
\* constructors did not raise
Construct(token, initOk) ==
    /\ bot.pc = "loaded"
    /\ bot' = IF ~token
              THEN [bot EXCEPT !.outcome = "raised", !.error = "ValueError"]
              ELSE [bot EXCEPT !.pc = "idle",
                               !.chatModel = bot.hasLangchain /\ initOk,
                               !.outcome = "none", !.error = "none"]
    /\ UNCHANGED LoggerVars

\* run(query), from its entry to the choice of the first path
RunBegin(q) ==
    /\ bot.pc = "idle"
    /\ bot.runs < MaxRuns
    /\ bot' = IF QueryRejected(q)
              THEN [bot EXCEPT !.runs = @ + 1, !.query = q, !.calls = <<>>,
                               !.lc = "none", !.rest = "none",
                               !.outcome = "raised", !.error = "ValueError"]
              ELSE [bot EXCEPT !.runs = @ + 1, !.query = q, !.calls = <<>>,
                               !.lc = "none", !.rest = "none",
                               !.outcome = "none", !.error = "none",
                               !.pc = IF Available(bot) THEN "langchain" ELSE "rest"]
    /\ UNCHANGED LoggerVars

\* "return self._call_langchain(query)" inside try/except Exception
CallLangchain(o) ==
    /\ bot.pc = "langchain"
    /\ LET nxt == AfterLangchain(o) IN
       bot' = [bot EXCEPT !.calls = Append(@, "langchain"),
                          !.lc = o,
                          !.pc = IF nxt = "rest" THEN "rest" ELSE "idle",
                          !.outcome = IF nxt = "rest" THEN "none" ELSE nxt,
                          !.error = IF nxt = "raised" THEN "BaseException" ELSE "none"]
    /\ UNCHANGED LoggerVars

\* "return self._call_rest_conversational(query)"
CallRest(o) ==
    /\ bot.pc = "rest"
    /\ bot' = [bot EXCEPT !.calls = Append(@, "rest"),
                          !.rest = o,
                          !.pc = "idle",
                          !.outcome = RestResult(o),
                          !.error = IF RestResult(o) = "raised"
                                    THEN "RestError" ELSE "none"]
    /\ UNCHANGED LoggerVars

\* metabot.py runs on the scoped copy of logger.py
InitBot == Start({NoFiles}) /\ variant = "scoped" /\ tree = MaxDepth

NextBot ==
    \/ \E has \in BOOLEAN : Import(has)
    \/ \E token, initOk \in BOOLEAN : Construct(token, initOk)
    \/ \E q \in Queries : RunBegin(q)
    \/ \E o \in LcOutcomes : CallLangchain(o)
    \/ \E o \in RestOutcomes : CallRest(o)

SpecBot == InitBot /\ [][NextBot]_vars

\* =================================================================== claims
Max0(x) == IF x > 0 THEN x ELSE 0
NoDup(q) == \A i, j \in 1..Len(q) : q[i] = q[j] => i = j
Listed(p) == Range(Paths(pass[p].infos))
KeyOf(p, f) == pass[p].infos[CHOOSE i \in 1..Len(pass[p].infos) : pass[p].infos[i].path = f].key
StampOf(f) == ParseTimestampFromFilename(f)

\* the pass of process p has returned, every deletion succeeded and no other
\* process changed the directory meanwhile
CleanPassDone(p) ==
    pc[p] = "end" /\ hist[p].failed = {} /\ ~hist[p].interfered

\* every listed file carries a valid timestamp in its name, all distinct
DistinctStamps(p) ==
    /\ \A f \in Listed(p) : StampOf(f) # None
    /\ \A f, g \in Listed(p) : f # g => StampOf(f) # StampOf(g)

\* ---- C1
\* C1: after a retention pass in which no deletion failed and nobody else
\* touched the directory, at most keep files match the pass's pattern.
C1_AtMostKeepAfterPass ==
    \A p \in Procs :
        CleanPassDone(p) =>
            Cardinality(Glob(variant, frame[p].mod, dir)) <= frame[p].keep

\* ---- C2
\* the pass has deleted exactly max(0, n - k) of the n files it listed
DeletedCountExact(p) ==
    Len(hist[p].removed) = Max0(hist[p].count - frame[p].keep)

\* the files the pass has deleted are older, by the timestamp in their names,
\* than every listed file it has kept
DeletedOldestByStamp(p) ==
    \A f \in Range(hist[p].removed), g \in Listed(p) \ Range(hist[p].removed) :
        StampOf(f)[1] < StampOf(g)[1]

C3_DeleteBound ==
    \A p \in Procs :
        pc[p] \in {"delete", "end"} =>
            /\ Len(hist[p].removed) <= Max0(hist[p].count - frame[p].keep)
            /\ hist[p].count <= frame[p].keep =>
                  /\ hist[p].attempts = <<>>
                  /\ pass[p].deleted = <<>>

\* a pass that had to delete has deleted count - keep files and kept keep
C3_Witness ==
    /\ pc[Main] = "end"
    /\ frame[Main].keep >= 1
    /\ hist[Main].count > frame[Main].keep
    /\ Len(hist[Main].removed) = hist[Main].count - frame[Main].keep

\* ---- C4
\* the match set as the claim words it: M_*.log for the scoped pass of module
\* M, a name ending in .log for the global pass
InMatchSet(m, name) ==
    IF variant = "scoped"
    THEN /\ Len(name) >= Len(m) + 2
         /\ SubSeq(name, 1, Len(m)) = m
         /\ name[Len(m) + 1] = "_"
         /\ name[Len(name)] = ".log"
    ELSE Len(name) >= 1 /\ name[Len(name)] = ".log"

\* C4: no step of a retention pass removes or changes a file outside the
\* pass's match set.
C4_OutsideUntouched ==
    [][\A name \in DOMAIN dir :
          (pc[Main] \in {"list", "sort", "delete"}
              /\ ~InMatchSet(frame[Main].mod, name))
          => (name \in DOMAIN dir' /\ dir'[name] = dir[name])]_vars

\* the scoped pass of "svc" has deleted while other_<stamp>.log is there
C4_Witness ==
    /\ variant = "scoped"
    /\ pc[Main] = "end"
    /\ frame[Main].mod = Svc
    /\ hist[Main].removed # <<>>
    /\ LogFilename(Other, 1) \in DOMAIN dir

\* ---- C5
\* C5: the setup_logger calls made for one module name in one process have
\* made exactly one log file, however many they are.
C5_OneFilePerName ==
    \A p \in Procs, m \in Modules :
        sess[p][m].calls >= 1 =>
            /\ Cardinality(sess[p][m].opened) = 1
            /\ Cardinality(sess[p][m].created) <= 1

\* ---- C6
\* C6: once setup_logger has been called for a name, its logger holds exactly
\* two sinks, a file sink and a console sink, however often it is called.
C6_TwoSinks ==
    \A p \in Procs, m \in Modules :
        sess[p][m].calls >= 1 =>
            /\ Len(loggers[p][m].handlers) = 2
            /\ loggers[p][m].handlers[1].kind = "file"
            /\ loggers[p][m].handlers[2].kind = "console"

\* a repeated call has returned
C6_Witness ==
    /\ pc[Main] = "idle"
    /\ sess[Main][Svc].calls >= 2
    /\ Len(loggers[Main][Svc].handlers) = 2

\* ---- C7
\* C7: when a setup_logger call is about to return, and when it has returned,
\* it has run exactly one retention pass, with the call's keep, begun when the
\* logger already held its two sinks.
C7_OnePassPerCall ==
    \A p \in Procs :
        /\ (pc[p] = "end" /\ frame[p].caller = "setup") =>
              /\ hist[p].passes = 1
              /\ hist[p].sinksAtPass = 2
              /\ hist[p].passKeep = frame[p].keep
        /\ (pc[p] = "idle" /\ hist[p].outcome = "returned") =>
              /\ hist[p].passes = 1
              /\ hist[p].sinksAtPass = 2

\* a repeated call has returned after its pass
C7_Witness ==
    /\ pc[Main] = "idle"
    /\ hist[Main].outcome = "returned"
    /\ sess[Main][Svc].calls >= 2
    /\ hist[Main].passes = 1

\* ---- C8
\* C8: the file sink of a name stays bound to the path the first call for that
\* name computed, and the records logged after a later call go to that path.
C8_BoundToFirstFile ==
    \A p \in Procs, m \in Modules :
        sess[p][m].calls >= 1 =>
            /\ loggers[p][m].handlers[1].path = sess[p][m].firstPath
            /\ sess[p][m].wrote # NoPath => sess[p][m].wrote = sess[p][m].firstPath

\* a record was logged after a repeated call that computed another path
C8_Witness ==
    /\ pc[Main] = "idle"
    /\ sess[Main][Svc].calls >= 2
    /\ sess[Main][Svc].lastPath # sess[Main][Svc].firstPath
    /\ sess[Main][Svc].wrote = sess[Main][Svc].firstPath

\* ---- C9
\* C9: a failed deletion does not end the pass: every candidate is attempted
\* once, in order, a failed one is not retried and is not in the returned list.
C9_FailureSkipped ==
    \A p \in Procs :
        pc[p] \in {"delete", "end"} =>
            /\ hist[p].attempts \o pass[p].todo = hist[p].cands
            /\ NoDup(hist[p].attempts)
            /\ hist[p].failed \cap Range(pass[p].deleted) = {}
            /\ hist[p].outcome # "raised"
            /\ pc[p] = "end" => hist[p].attempts = hist[p].cands

\* a deletion failed and a later candidate was still deleted
C9_Witness ==
    /\ pc[Main] = "end"
    /\ \E i, j \in 1..Len(hist[Main].attempts) :
          /\ i < j
          /\ hist[Main].attempts[i] \in hist[Main].failed
          /\ hist[Main].attempts[j] \in Range(hist[Main].removed)

\* ---- C10
\* C10: the returned list is the sequence of paths the pass removed, each once,
\* in the order of removal, which is ascending in sort key.
C10_ReturnedList ==
    \A p \in Procs :
        pc[p] = "end" =>
            /\ pass[p].deleted = hist[p].removed
            /\ NoDup(pass[p].deleted)
            /\ Range(pass[p].deleted) \subseteq Range(hist[p].cands)
            /\ \A i, j \in 1..Len(pass[p].deleted) :
                  i < j => KeyOf(p, pass[p].deleted[i]) <= KeyOf(p, pass[p].deleted[j])

\* two files of different age were returned and one candidate could not be deleted
C10_Witness ==
    /\ pc[Main] = "end"
    /\ Len(pass[Main].deleted) >= 2
    /\ hist[Main].failed # {}
    /\ KeyOf(Main, pass[Main].deleted[1]) < KeyOf(Main, pass[Main].deleted[2])

\* ---- C11
\* the sort key as the claim gives it: the timestamp in the name when it is a
\* valid one, else the modification time, else (unreadable) the epoch
ClaimedSortKey(d, path) ==
    IF StampOf(path) # None THEN StampOf(path)[1]
    ELSE IF path \in DOMAIN d THEN d[path].mtime
    ELSE 0

\* C11: when a pass of either variant leaves its sort, it has not raised, every
\* listed file carries the sort key the rule above gives it, and a file whose
\* modification time could not be read sorts before every file with another key.
C11_SortKeyRule ==
    [][\A p \in Procs :
          (pc[p] = "sort" /\ pc'[p] # "sort") =>
              /\ pc'[p] = "delete"
              /\ hist'[p].outcome # "raised"
              /\ \A i \in 1..Len(pass'[p].infos) :
                    LET f == pass'[p].infos[i] IN
                    /\ f.key = ClaimedSortKey(dir, f.path)
                    /\ (StampOf(f.path) = None /\ f.path \notin DOMAIN dir) =>
                          \A j \in 1..Len(pass'[p].infos) :
                              pass'[p].infos[j].key # f.key => i < j]_vars

\* ---- C12
\* the pass of p has just chosen its candidates and the directory is as the
\* sort read it
JustSorted(p) ==
    pc[p] = "delete" /\ hist[p].attempts = <<>> /\ ~hist[p].interfered

Pos(fs, x) == CHOOSE i \in 1..Len(fs) : fs[i] = x

\* the candidates the pass would have chosen had the listing come in order fs
CandidatesFor(p, fs) == Range(ToDelete(SortedInfos(dir, fs), frame[p].keep))

\* C12 as stated: the set of files a pass deletes is the same for every order
\* in which the directory listing may return the files.
C12_DeletedSetIndependentOfListing ==
    \A p \in Procs :
        JustSorted(p) =>
            \A fs \in Orders(Listed(p)) : CandidatesFor(p, fs) = Range(hist[p].cands)

\* C12 as amended: the sort is ascending in the key and files of equal key keep
\* the order of the listing (no comparison of names); the deleted set is
\* independent of the listing order when the keys are pairwise distinct.
C12_TiesKeepListingOrder ==
    \A p \in Procs :
        JustSorted(p) =>
            /\ \E fs \in Orders(Listed(p)) : pass[p].infos = SortedInfos(dir, fs)
            /\ \A fs \in Orders(Listed(p)) :
                  LET infos == SortedInfos(dir, fs) IN
                  /\ \A i, j \in 1..Len(infos) :
                        i < j =>
                          /\ infos[i].key <= infos[j].key
                          /\ infos[i].key = infos[j].key =>
                                Pos(fs, infos[i].path) < Pos(fs, infos[j].path)
                  /\ (\A f, g \in Listed(p) : f # g => KeyOf(p, f) # KeyOf(p, g)) =>
                        CandidatesFor(p, fs) = Range(hist[p].cands)

\* a candidate and a kept file have the same key: the listing order decided
C12_Witness ==
    /\ JustSorted(Main)
    /\ \E f \in Range(hist[Main].cands), g \in Listed(Main) \ Range(hist[Main].cands) :
          KeyOf(Main, f) = KeyOf(Main, g)

\* ---- C13
\* C13: a setup_logger call that raises (directory not creatable, file sink not
\* openable) hands back no handle, attaches no sink to any logger (so leaves no
\* console-only logger) and runs no retention pass.
C13_FatalSetupErrors ==
    [][\A p \in Procs :
          (ncalls' = ncalls + 1 /\ hist'[p].outcome = "raised") =>
              /\ pc'[p] = "idle"
              /\ frame'[p] = frame[p]
              /\ pass'[p] = pass[p]
              /\ hist'[p].passes = 0
              /\ \A m \in Modules :
                    /\ loggers'[p][m].handlers = loggers[p][m].handlers
                    /\ Len(loggers'[p][m].handlers) \in {0, 2}]_vars

\* the file sink of a first call could not be opened: the call has raised and
\* the logger of the name has its level set but holds no sink
C13_Witness ==
    /\ pc[Main] = "idle"
    /\ hist[Main].outcome = "raised"
    /\ loggers[Main][Svc].level # 0
    /\ loggers[Main][Svc].handlers = <<>>

\* ---- C14
\* C14: a failed pre-touch is never what makes setup_logger raise, and a call
\* whose pre-touch failed goes on to open the file sink: it holds both sinks when
\* its retention pass runs and has run exactly one pass when it returns.
C14_PreTouchAdvisory ==
    \A p \in Procs :
        /\ hist[p].outcome = "raised" => hist[p].cause # "pretouch"
        /\ (variant = "global" /\ frame[p].caller = "setup" /\ ~frame[p].touched) =>
              /\ Len(loggers[p][frame[p].mod].handlers) = 2
              /\ loggers[p][frame[p].mod].handlers[1].kind = "file"
              /\ frame[p].first => frame[p].path \in sess[p][frame[p].mod].opened
              /\ pc[p] = "end" => hist[p].passes = 1

\* a first call whose pre-touch failed is about to return with its two sinks
C14_Witness ==
    /\ variant = "global"
    /\ pc[Main] = "end"
    /\ frame[Main].caller = "setup"
    /\ frame[Main].first /\ ~frame[Main].touched
    /\ Len(loggers[Main][frame[Main].mod].handlers) = 2
    /\ hist[Main].passes = 1

\* ---- C15
\* C15: a setup_logger call that got past its entry has a complete log_dir path,
\* whether it had to create none, some or all of the path's components, and the
\* log file a first call opens is in that directory when the pass starts.
C15_DirectoryCreated ==
    \A p \in Procs :
        frame[p].caller = "setup" =>
            /\ tree = MaxDepth
            /\ frame[p].made \in 0..MaxDepth
            /\ (pc[p] = "list" /\ frame[p].first) => frame[p].path \in DOMAIN dir

\* log_dir and all its parents were missing; the call made them and is about
\* to return
C15_Witness ==
    /\ pc[Main] = "end"
    /\ frame[Main].caller = "setup"
    /\ frame[Main].made = MaxDepth
    /\ frame[Main].first
    /\ tree = MaxDepth

\* ---- C16
\* C16: of two processes running retention passes on one directory, under every
\* interleaving of their steps, neither pass raises; a file the other process
\* removed first is only missing from the returned list.
C16_ConcurrentPassesNeverRaise ==
    \A p \in Procs :
        /\ hist[p].outcome # "raised"
        /\ pc[p] = "end" =>
              /\ pass[p].deleted = hist[p].removed
              /\ hist[p].failed \cap Range(pass[p].deleted) = {}

\* ---- C17
\* the handle of name m is the one a single, first call for m has returned
FirstCallOnly(p, m) == sess[p][m].calls = 1 /\ HasHandlers(loggers[p][m])

\* C17 as stated: through the handle of a first call with level L a record of
\* severity s reaches the file sink iff s >= L and the console sink iff
\* s >= INFO, whatever L is.
C17_ConsoleIndependentOfLevel ==
    \A p \in Procs, m \in Modules :
        FirstCallOnly(p, m) =>
            \A sev \in Severities :
                /\ 1 \in Reached(loggers[p][m], sev) <=> sev >= sess[p][m].firstLevel
                /\ 2 \in Reached(loggers[p][m], sev) <=> sev >= INFO

\* C17 as amended: the file sink gets s iff s >= L; the console sink gets s iff
\* s >= INFO and s >= L, because the logger itself drops what is below L.
C17_ConsoleAboveInfoAndLevel ==
    \A p \in Procs, m \in Modules :
        FirstCallOnly(p, m) =>
            \A sev \in Severities :
                /\ 1 \in Reached(loggers[p][m], sev) <=> sev >= sess[p][m].firstLevel
                /\ 2 \in Reached(loggers[p][m], sev) <=>
                      (sev >= INFO /\ sev >= sess[p][m].firstLevel)

\* a first call with level WARNING has returned and a record went to its file:
\* an INFO record does not reach the console
C17_Witness ==
    /\ pc[Main] = "idle"
    /\ FirstCallOnly(Main, Svc)
    /\ sess[Main][Svc].firstLevel = WARNING
    /\ sess[Main][Svc].wrote = sess[Main][Svc].firstPath
    /\ 2 \notin Reached(loggers[Main][Svc], INFO)

\* ---- C18
\* C18: when a setup_logger call with keep >= 1 is about to return, its pass has
\* not removed the file the call made, and the file sink of the handle is open
\* on a file that is still in the directory.
C18_OwnFileSurvivesPass ==
    \A p \in Procs :
        (pc[p] = "end" /\ frame[p].caller = "setup" /\ frame[p].keep >= 1) =>
            /\ frame[p].path \notin Range(hist[p].removed)
            /\ LET h == loggers[p][frame[p].mod].handlers[1]
               IN  h.live /\ h.path \in DOMAIN dir

\* ---- C19
\* both processes have listed the directory for the same selector and keep
SamePasses ==
    /\ \A p \in Procs : pc[p] \in {"sort", "delete", "end"}
    /\ \A p, q \in Procs : frame[p].mod = frame[q].mod /\ frame[p].keep = frame[q].keep

\* the number of matching files when the first of the passes listed: files are
\* only removed meanwhile, so it is the larger of the two counts
FirstCount == Max0(CHOOSE n \in {hist[p].count : p \in Procs} :
                       \A q \in Procs : hist[q].count <= n)

Min(a, b) == IF a < b THEN a ELSE b

\* C19: two concurrent passes with the same selector and keep, run while live
\* sessions append to their log files, never leave fewer matching files than
\* min(keep, the number of matching files the first pass listed).
C19_PassesTogetherKeepEnough ==
    SamePasses =>
        Cardinality(Glob(variant, frame[Main].mod, dir))
            >= Min(frame[Main].keep, FirstCount)

\* ---- C20
\* C20: no step taken once a name's logger has its sinks, a repeated
\* setup_logger call with another level included, changes which severities
\* reach the file sink and the console sink of that name.
C20_RepeatedCallKeepsFiltering ==
    [][\A p \in Procs, m \in Modules :
          HasHandlers(loggers[p][m]) =>
              \A sev \in Severities :
                  Reached(loggers'[p][m], sev) = Reached(loggers[p][m], sev)]_vars

\* ---- C21
\* C21: a scoped retention pass run for module name A never removes a file
\* that a session of another module name B has created, B = A + "_extra"
\* included.
C21_OtherNamesFilesSurvive ==
    \A p \in Procs, a, b \in Modules :
        (variant = "scoped" /\ a # b /\ InPass(p) /\ frame[p].mod = a) =>
            Range(hist[p].removed) \cap sess[p][b].created = {}

\* ---- C22
\* the query is no string, is empty, or is made of whitespace only
ClaimRejects(q) ==
    \/ q.type # "str"
    \/ \A i \in 1..Len(q.text) : IsSpace(q.text[i])

\* C22: run(query) rejects a query that is no string, empty or whitespace
\* only with ValueError before any model call; for any other query the calls
\* made so far are at most one LangChain call followed by at most one REST
\* call, the LangChain call comes first whenever the chat model is available,
\* the REST call is made or pending only when the chat model is unavailable or
\* its call raised, and no REST call follows a LangChain reply.
C22_RunPaths ==
    bot.runs >= 1 =>
        LET avail == bot.hasLangchain /\ bot.chatModel
            restDue == bot.pc = "rest" \/ "rest" \in Range(bot.calls)
        IN  /\ ClaimRejects(bot.query) =>
                  /\ bot.calls = <<>>
                  /\ bot.pc = "idle"
                  /\ bot.outcome = "raised" /\ bot.error = "ValueError"
            /\ ~ClaimRejects(bot.query) =>
                  /\ bot.error # "ValueError"
                  /\ bot.calls \in {<<>>, <<"langchain">>, <<"rest">>,
                                    <<"langchain", "rest">>}
                  /\ avail =>
                        IF bot.calls = <<>> THEN bot.pc = "langchain"
                        ELSE bot.calls[1] = "langchain"
                  /\ ~avail => bot.calls # <<>> \/ bot.pc = "rest"
                  /\ restDue => ~avail \/ bot.lc = "exception"
                  /\ bot.lc = "reply" =>
                        ~restDue /\ bot.pc = "idle" /\ bot.outcome = "returned"

\* the LangChain call raised and the REST call then answered a query that has
\* whitespace around its text
C22_Witness ==
    /\ bot.query = [type |-> "str", text |-> <<" ", "q">>]
    /\ bot.calls = <<"langchain", "rest">>
    /\ bot.lc = "exception"
    /\ bot.outcome = "returned"

====
